---- MODULE Spec2Model ----
(***************************************************************************)
(* Model of caffe2/utils/proto_utils.cc: protocol-buffer file helpers,     *)
(* MakeArgument constructors and the argument lookups on an OperatorDef.   *)
(***************************************************************************)
EXTENDS Integers, Sequences, FiniteSets, TLC

(* ------------------------------ bounds -------------------------------- *)
\* longest argument sequence an OperatorDef starts with
MaxArgs == 3
\* longest repeated-field content of a generic message
MaxFields == 2
\* longest vector handed to the repeated MakeArgument variants
MaxVec == 2

(* --------------------------- value domains ---------------------------- *)
\* names carried by the arguments an OperatorDef starts with
ArgNames == {"a", "b"}
\* names callers ask for ("c" is never present initially)
QueryNames == {"a", "b", "c"}
\* float, int payloads; strings are sequences of character codes
FloatVals == {0, 35}
IntVals == {1, 2}
StringVals == {<<>>, <<120>>}
\* value written through a handle returned by GetMutableArgument
HandleVals == {7, 8}

SeqsUpTo(S, n) == UNION {[1..k -> S] : k \in 0..n}

(* ------------------------------ Argument ------------------------------ *)
\* a default-constructed Argument message: nothing set, nothing repeated
DefaultArgument ==
  [has_name |-> FALSE, name |-> "",
   has_f |-> FALSE, f |-> 0,
   has_i |-> FALSE, i |-> 0,
   has_s |-> FALSE, s |-> <<>>,
   floats |-> <<>>, ints |-> <<>>, strings |-> <<>>]

set_name(arg, n) == [arg EXCEPT !.has_name = TRUE, !.name = n]
set_f(arg, v) == [arg EXCEPT !.has_f = TRUE, !.f = v]
set_i(arg, v) == [arg EXCEPT !.has_i = TRUE, !.i = v]
set_s(arg, v) == [arg EXCEPT !.has_s = TRUE, !.s = v]
add_floats(arg, v) == [arg EXCEPT !.floats = Append(@, v)]
add_ints(arg, v) == [arg EXCEPT !.ints = Append(@, v)]
add_strings(arg, v) == [arg EXCEPT !.strings = Append(@, v)]

VARIABLES
  build,     \* "full" or "lite": whether CAFFE2_USE_LITE_PROTO is defined
  aborted,   \* TRUE once a fatal diagnostic has ended the process
  def,       \* the OperatorDef's argument sequence
  handle,    \* index of the entry the last Argument* points at, 0 = nullptr
  last,      \* the last lookup call and what it returned
  made,      \* the last MakeArgument call and what it returned
  files,     \* path -> content of the file, or Missing
  diskFull,  \* TRUE when writes to an opened file fail
  fds,       \* descriptors open in the process
  io         \* the last file helper call and what it returned

vars == <<build, aborted, def, handle, last, made, files, diskFull, fds, io>>

(* ------------------------- fatal diagnostics -------------------------- *)
\* CAFFE_LOG_FATAL and a failing CAFFE_CHECK: log and abort the process;
\* the statement after it is never reached
LogFatal == "fatal"

(* --------------------------- argument lookup -------------------------- *)
\* keeps scanning after a match, so the last duplicate wins
RECURSIVE GetArgumentScanLast(_, _, _)
GetArgumentScanLast(d, name, k) ==
  IF k > Len(d) THEN 0
  ELSE LET r == GetArgumentScanLast(d, name, k + 1) IN
       IF r # 0 THEN r
       ELSE IF d[k].name = name THEN k ELSE 0

\* for (const Argument& arg : def.arg()) if (arg.name() == name) return arg;
RECURSIVE GetArgumentScan(_, _, _)
GetArgumentScan(d, name, k) ==
  IF k > Len(d) THEN 0
  ELSE IF d[k].name = name THEN k
  ELSE GetArgumentScan(d, name, k + 1)

\* a missing name returned as if it were the last entry, without a diagnostic
GetArgumentNoFatal(d, name) ==
  LET k == GetArgumentScan(d, name, 1) IN
  IF k # 0 THEN [outcome |-> "ok", idx |-> k, arg |-> d[k]]
  ELSE [outcome |-> "ok", idx |-> 0, arg |-> DefaultArgument]

GetArgument(d, name) ==
  LET k == GetArgumentScan(d, name, 1) IN
  IF k # 0 THEN [outcome |-> "ok", idx |-> k, arg |-> d[k]]
  ELSE [outcome |-> LogFatal, idx |-> 0, arg |-> DefaultArgument]

\* for (int i = 0; i < def->arg_size(); ++i) if (def->arg(i).name() == name)
RECURSIVE GetMutableScan(_, _, _)
GetMutableScan(d, name, k) ==
  IF k > Len(d) THEN 0
  ELSE IF d[k].name = name THEN k
  ELSE GetMutableScan(d, name, k + 1)

\* appends even when the name is already present
GetMutableArgumentAlwaysAdd(name, create_if_missing, d) ==
  IF create_if_missing
  THEN [outcome |-> "created", idx |-> Len(d) + 1,
        def |-> Append(d, set_name(DefaultArgument, name))]
  ELSE [outcome |-> "null", idx |-> 0, def |-> d]

\* creates the entry whatever create_if_missing says
GetMutableArgumentIgnoreFlag(name, create_if_missing, d) ==
  LET k == GetMutableScan(d, name, 1) IN
  IF k # 0 THEN [outcome |-> "found", idx |-> k, def |-> d]
  ELSE [outcome |-> "created", idx |-> Len(d) + 1,
        def |-> Append(d, set_name(DefaultArgument, name))]

\* puts the new entry in front of the sequence
GetMutableArgumentPrepend(name, create_if_missing, d) ==
  LET k == GetMutableScan(d, name, 1) IN
  IF k # 0 THEN [outcome |-> "found", idx |-> k, def |-> d]
  ELSE IF create_if_missing
  THEN [outcome |-> "created", idx |-> 1,
        def |-> <<set_name(DefaultArgument, name)>> \o d]
  ELSE [outcome |-> "null", idx |-> 0, def |-> d]

GetMutableArgument(name, create_if_missing, d) ==
  LET k == GetMutableScan(d, name, 1) IN
  IF k # 0 THEN [outcome |-> "found", idx |-> k, def |-> d]
  ELSE IF create_if_missing
  THEN [outcome |-> "created", idx |-> Len(d) + 1,
        def |-> Append(d, set_name(DefaultArgument, name))]
  ELSE [outcome |-> "null", idx |-> 0, def |-> d]

NoLookup ==
  [op |-> "none", name |-> "", create |-> FALSE, outcome |-> "none",
   idx |-> 0, arg |-> DefaultArgument]

\* const Argument& r = GetArgument(def, n)
DoGetArgument ==
  /\ ~aborted
  /\ \E n \in QueryNames :
       LET r == GetArgument(def, n) IN
       /\ last' = [op |-> "GetArgument", name |-> n, create |-> FALSE,
                   outcome |-> r.outcome, idx |-> r.idx, arg |-> r.arg]
       /\ aborted' = (r.outcome = LogFatal)
  /\ UNCHANGED <<build, def, handle, made, files, diskFull, fds, io>>

\* Argument* p = GetMutableArgument(n, c, &def)
DoGetMutableArgument ==
  /\ ~aborted
  /\ \E n \in QueryNames, c \in BOOLEAN :
       LET r == GetMutableArgument(n, c, def) IN
       /\ def' = r.def
       /\ handle' = r.idx
       /\ last' = [op |-> "GetMutableArgument", name |-> n, create |-> c,
                   outcome |-> r.outcome, idx |-> r.idx,
                   arg |-> IF r.idx = 0 THEN DefaultArgument ELSE r.def[r.idx]]
  /\ UNCHANGED <<build, aborted, made, files, diskFull, fds, io>>

\* p->set_i(v) through the pointer the last GetMutableArgument returned
SetThroughHandle ==
  /\ ~aborted
  /\ handle # 0
  /\ \E v \in HandleVals :
       /\ def' = [def EXCEPT ![handle] = set_i(@, v)]
       /\ last' = [op |-> "set_i", name |-> def[handle].name,
                   create |-> last.create,
                   outcome |-> last.outcome, idx |-> handle,
                   arg |-> set_i(def[handle], v)]
  /\ UNCHANGED <<build, aborted, handle, made, files, diskFull, fds, io>>

\* argument k of an initial OperatorDef: a name and a payload telling
\* duplicates apart
InitialArg(n, k) == set_i(set_name(DefaultArgument, n), 10 + k)

InitialDefs ==
  {[k \in 1..Len(ns) |-> InitialArg(ns[k], k)] : ns \in SeqsUpTo(ArgNames, MaxArgs)}

NoMade ==
  [op |-> "none", name |-> "", val |-> 0, outcome |-> "none",
   arg |-> DefaultArgument]

NoIo ==
  [op |-> "none", path |-> "", msg |-> <<>>, outcome |-> "none",
   fd |-> 0, used |-> FALSE, success |-> FALSE, out |-> <<>>]

NoFiles == [p \in {"p", "nodir/x"} |-> [exists |-> FALSE, bytes |-> <<>>]]

StdFds == {0, 1, 2}

InitLookup ==
  /\ build = "full"
  /\ aborted = FALSE
  /\ def \in InitialDefs
  /\ handle = 0
  /\ last = NoLookup
  /\ made = NoMade
  /\ files = NoFiles
  /\ diskFull = FALSE
  /\ fds = StdFds
  /\ io = NoIo

NextLookup == DoGetArgument \/ DoGetMutableArgument \/ SetThroughHandle

SpecLookup == InitLookup /\ [][NextLookup]_vars

(* ------------------------ lookup: properties -------------------------- *)
Present(d, n) == \E k \in 1..Len(d) : d[k].name = n

FirstIndex(d, n) ==
  CHOOSE k \in 1..Len(d) :
    d[k].name = n /\ \A j \in 1..(k - 1) : d[j].name # n

Count(d, n) == Cardinality({k \in 1..Len(d) : d[k].name = n})

NamesDistinct(d) ==
  \A j, k \in 1..Len(d) : d[j].name = d[k].name => j = k

IsPrefix(d, e) ==
  Len(d) <= Len(e) /\ \A k \in 1..Len(d) : e[k] = d[k]

NamesOf(d) == [k \in 1..Len(d) |-> d[k].name]

\* C1: when the name is present, GetArgument and GetMutableArgument both
\* return the entry at the smallest matching index, never a later
\* duplicate, and GetMutableArgument leaves the sequence unchanged whatever
\* create_if_missing is.
C1_FirstMatch ==
  [][(last'.op \in {"GetArgument", "GetMutableArgument"}
        /\ Present(def, last'.name))
      => /\ last'.outcome \in {"ok", "found"}
         /\ last'.idx = FirstIndex(def, last'.name)
         /\ last'.arg = def[FirstIndex(def, last'.name)]
         /\ def' = def
         /\ ~aborted']_vars

\* both lookups have returned the first of two entries with the same name
C1_Witness ==
  /\ last.op \in {"GetArgument", "GetMutableArgument"}
  /\ last.outcome \in {"ok", "found"}
  /\ Count(def, last.name) >= 2
  /\ last.idx = 1

\* C2: GetMutableArgument(name, false, def) with no argument named name
\* returns the null handle, raises no fatal error and leaves the argument
\* sequence exactly as it was.
C2_AbsentNoCreate ==
  [][(last'.op = "GetMutableArgument" /\ ~last'.create
        /\ ~Present(def, last'.name))
      => /\ last'.outcome = "null"
         /\ last'.idx = 0
         /\ handle' = 0
         /\ ~aborted'
         /\ def' = def]_vars

C2_Witness ==
  /\ last.op = "GetMutableArgument"
  /\ ~last.create
  /\ last.outcome = "null"
  /\ Len(def) > 0

\* C3: GetMutableArgument(name, true, def) with no argument named name
\* appends exactly one Argument with only its name set, keeps every earlier
\* entry in place, returns a handle to the new last entry, and a value
\* written through that handle is what a later read of def finds.
C3_CreateIfMissing ==
  [][/\ (last'.op = "GetMutableArgument" /\ last'.create
           /\ ~Present(def, last'.name))
        => /\ last'.outcome = "created"
           /\ Len(def') = Len(def) + 1
           /\ \A k \in 1..Len(def) : def'[k] = def[k]
           /\ def'[Len(def')] =
                [DefaultArgument EXCEPT !.has_name = TRUE, !.name = last'.name]
           /\ handle' = Len(def')
           /\ last'.idx = Len(def')
           /\ ~aborted'
     /\ (last'.op = "set_i" /\ last.op = "GetMutableArgument"
           /\ last.outcome = "created")
        => /\ Present(def', last.name)
           /\ FirstIndex(def', last.name) = Len(def')
           /\ def'[FirstIndex(def', last.name)].has_i
           /\ def'[FirstIndex(def', last.name)].i = last'.arg.i
           /\ last'.arg.i \in HandleVals
           /\ \A k \in 1..(Len(def) - 1) : def'[k] = def[k]
           /\ Len(def') = Len(def)]_vars

\* a value has been written through the handle of a freshly created entry
C3_Witness ==
  /\ last.op = "set_i"
  /\ last.outcome = "created"
  /\ last.idx = Len(def)
  /\ Len(def) > 1
  /\ def[Len(def)].i \in HandleVals

\* C4: GetArgument(def, name) with no argument named name ends in the fatal
\* outcome, never in a normal return, and does not modify def.
C4_MissingIsFatal ==
  [][(last'.op = "GetArgument" /\ ~Present(def, last'.name))
      => /\ last'.outcome = "fatal"
         /\ aborted'
         /\ def' = def]_vars

C4_Witness ==
  /\ last.op = "GetArgument"
  /\ last.outcome = "fatal"
  /\ aborted
  /\ Len(def) > 0

\* C10: over any sequence of GetMutableArgument calls the sequence only
\* grows at its end, by at most one entry per call and only when the name
\* was absent and create_if_missing was true; no call adds a second entry
\* for a name already present, so pairwise distinct names stay pairwise
\* distinct; repeating a call changes nothing and returns the same entry;
\* writes through handles never change the names.
C10_GrowthInvariant ==
  [][/\ last'.op = "GetMutableArgument"
        => /\ IsPrefix(def, def')
           /\ Len(def') <= Len(def) + 1
           /\ (Len(def') = Len(def) + 1)
                <=> (last'.create /\ ~Present(def, last'.name))
           /\ \A n \in QueryNames :
                Count(def', n) > Count(def, n) => Count(def, n) = 0
           /\ NamesDistinct(def) => NamesDistinct(def')
           /\ (last.op = "GetMutableArgument" /\ last.name = last'.name
                 /\ last.create = last'.create)
              => (def' = def /\ handle' = handle /\ last'.idx = last.idx)
     /\ NamesOf(def') \in {NamesOf(def), Append(NamesOf(def), last'.name)}]_vars

\* an entry created by one call has been found again by a later call
C10_Witness ==
  /\ last.op = "GetMutableArgument"
  /\ last.outcome = "found"
  /\ last.name = "c"
  /\ last.idx = Len(def)
  /\ Len(def) > MaxArgs - 1

(* ------------------------- generic messages --------------------------- *)
\* a generic message: the values of one repeated varint field (number 1)
Messages == SeqsUpTo({0, 1}, MaxFields)

\* binary wire encoding: per value the tag byte (field 1, varint) then the
\* value's varint byte
RECURSIVE Encode(_)
Encode(m) ==
  IF m = <<>> THEN <<>>
  ELSE <<8, Head(m)>> \o Encode(Tail(m))

\* binary parse: [ok, msg]; msg holds what was merged before a failure.
\* A tag that is not field 1/varint has no valid wire type in the file
\* contents that occur here, and a tag without its value is a truncated
\* stream; both fail the parse.
RECURSIVE DecodeFrom(_, _)
DecodeFrom(bytes, acc) ==
  IF bytes = <<>> THEN [ok |-> TRUE, msg |-> acc]
  ELSE IF Head(bytes) # 8 \/ Len(bytes) < 2 THEN [ok |-> FALSE, msg |-> acc]
  ELSE DecodeFrom(Tail(Tail(bytes)), Append(acc, bytes[2]))

Decode(bytes) == DecodeFrom(bytes, <<>>)

(* ------------------------- MakeArgument family ------------------------ *)
\* the macro instantiated with the wrong field name
MakeArgument_int_WrongField(name, value) ==
  [outcome |-> "ok", arg |-> set_f(set_name(DefaultArgument, name), value)]

\* CAFFE2_MAKE_SINGULAR_ARGUMENT(float, f)
MakeArgument_float(name, value) ==
  [outcome |-> "ok", arg |-> set_f(set_name(DefaultArgument, name), value)]

\* CAFFE2_MAKE_SINGULAR_ARGUMENT(int, i)
MakeArgument_int(name, value) ==
  [outcome |-> "ok", arg |-> set_i(set_name(DefaultArgument, name), value)]

\* CAFFE2_MAKE_SINGULAR_ARGUMENT(string, s)
MakeArgument_string(name, value) ==
  [outcome |-> "ok", arg |-> set_s(set_name(DefaultArgument, name), value)]

\* MakeArgument(const string&, const MessageLite&)
MakeArgument_MessageLite(name, value) ==
  [outcome |-> "ok",
   arg |-> set_s(set_name(DefaultArgument, name), Encode(value))]

\* for (const auto& v : value) arg.add_floats(v);
RECURSIVE AddAll_floats(_, _)
AddAll_floats(arg, value) ==
  IF value = <<>> THEN arg
  ELSE AddAll_floats(add_floats(arg, Head(value)), Tail(value))

RECURSIVE AddAll_ints(_, _)
AddAll_ints(arg, value) ==
  IF value = <<>> THEN arg
  ELSE AddAll_ints(add_ints(arg, Head(value)), Tail(value))

RECURSIVE AddAll_strings(_, _)
AddAll_strings(arg, value) ==
  IF value = <<>> THEN arg
  ELSE AddAll_strings(add_strings(arg, Head(value)), Tail(value))

\* The repeated variants reach the closing brace of a function returning
\* Argument without a return statement.  What the caller receives is
\* undefined: the local that was built (when it was constructed in the
\* return slot), an object the function never wrote to, or a trap.
IndeterminateArguments ==
  {DefaultArgument, [DefaultArgument EXCEPT !.has_i = TRUE, !.i = 99]}

FlowsOffEnd(arg) ==
  {[outcome |-> "ok", arg |-> a] : a \in {arg} \union IndeterminateArguments}
    \union {[outcome |-> "trap", arg |-> DefaultArgument]}

\* CAFFE2_MAKE_REPEATED_ARGUMENT(float, floats)
MakeArgument_floats(name, value) ==
  FlowsOffEnd(AddAll_floats(set_name(DefaultArgument, name), value))

\* CAFFE2_MAKE_REPEATED_ARGUMENT(int, ints)
MakeArgument_ints(name, value) ==
  FlowsOffEnd(AddAll_ints(set_name(DefaultArgument, name), value))

\* CAFFE2_MAKE_REPEATED_ARGUMENT(string, strings)
MakeArgument_strings(name, value) ==
  FlowsOffEnd(AddAll_strings(set_name(DefaultArgument, name), value))

Made(op, name, value, r) ==
  /\ made' = [op |-> op, name |-> name, val |-> value,
              outcome |-> r.outcome, arg |-> r.arg]
  /\ aborted' = (r.outcome = "trap")
  /\ UNCHANGED <<build, def, handle, last, files, diskFull, fds, io>>

DoMakeArgument_float ==
  /\ ~aborted
  /\ \E n \in QueryNames, v \in FloatVals :
       Made("float", n, v, MakeArgument_float(n, v))

DoMakeArgument_int ==
  /\ ~aborted
  /\ \E n \in QueryNames, v \in IntVals :
       Made("int", n, v, MakeArgument_int(n, v))

DoMakeArgument_string ==
  /\ ~aborted
  /\ \E n \in QueryNames, v \in StringVals :
       Made("string", n, v, MakeArgument_string(n, v))

DoMakeArgument_MessageLite ==
  /\ ~aborted
  /\ \E n \in QueryNames, v \in Messages :
       Made("MessageLite", n, v, MakeArgument_MessageLite(n, v))

DoMakeArgument_floats ==
  /\ ~aborted
  /\ \E n \in QueryNames, v \in SeqsUpTo(FloatVals, MaxVec) :
       \E r \in MakeArgument_floats(n, v) : Made("floats", n, v, r)

DoMakeArgument_ints ==
  /\ ~aborted
  /\ \E n \in QueryNames, v \in SeqsUpTo(IntVals, MaxVec) :
       \E r \in MakeArgument_ints(n, v) : Made("ints", n, v, r)

DoMakeArgument_strings ==
  /\ ~aborted
  /\ \E n \in QueryNames, v \in SeqsUpTo(StringVals, MaxVec) :
       \E r \in MakeArgument_strings(n, v) : Made("strings", n, v, r)

InitMake ==
  /\ build \in {"full", "lite"}
  /\ aborted = FALSE
  /\ def = <<>>
  /\ handle = 0
  /\ last = NoLookup
  /\ made = NoMade
  /\ files = NoFiles
  /\ diskFull = FALSE
  /\ fds = StdFds
  /\ io = NoIo

NextMake ==
  \/ DoMakeArgument_float
  \/ DoMakeArgument_int
  \/ DoMakeArgument_string
  \/ DoMakeArgument_MessageLite
  \/ DoMakeArgument_floats
  \/ DoMakeArgument_ints
  \/ DoMakeArgument_strings

SpecMake == InitMake /\ [][NextMake]_vars

(* ---------------------- MakeArgument: properties ---------------------- *)
Named(n) == [DefaultArgument EXCEPT !.has_name = TRUE, !.name = n]

\* C5: each repeated variant returns an Argument with the given name whose
\* matching repeated field equals the input sequence element for element,
\* in order, and nothing else populated.
C5_RepeatedReturned ==
  /\ made.op = "floats"
       => (made.outcome = "ok"
           /\ made.arg = [Named(made.name) EXCEPT !.floats = made.val])
  /\ made.op = "ints"
       => (made.outcome = "ok"
           /\ made.arg = [Named(made.name) EXCEPT !.ints = made.val])
  /\ made.op = "strings"
       => (made.outcome = "ok"
           /\ made.arg = [Named(made.name) EXCEPT !.strings = made.val])

\* C6: each scalar variant returns an Argument with the given name, exactly
\* the matching scalar field set to the value (for a message: s holding the
\* bytes that parse back to the message), and every other field unset.
C6_ScalarFields ==
  /\ made.op \in {"float", "int", "string", "MessageLite"}
       => made.outcome = "ok"
  /\ made.op = "float"
       => made.arg = [Named(made.name) EXCEPT !.has_f = TRUE, !.f = made.val]
  /\ made.op = "int"
       => made.arg = [Named(made.name) EXCEPT !.has_i = TRUE, !.i = made.val]
  /\ made.op = "string"
       => made.arg = [Named(made.name) EXCEPT !.has_s = TRUE, !.s = made.val]
  /\ made.op = "MessageLite"
       => /\ made.arg = [Named(made.name) EXCEPT !.has_s = TRUE,
                                                 !.s = made.arg.s]
          /\ made.arg.has_s
          /\ Len(made.arg.s) = 2 * Len(made.val)
          /\ Decode(made.arg.s) = [ok |-> TRUE, msg |-> made.val]

\* a non-empty message has been stored in s
C6_Witness ==
  /\ made.op = "MessageLite"
  /\ made.outcome = "ok"
  /\ Len(made.val) > 1
  /\ made.arg.has_s
  /\ made.arg.s # <<>>

(* ----------------------------- file system ---------------------------- *)
\* "p" lies in a writable directory; the directory of "nodir/x" does not
\* exist, so the file can be neither read nor created
Paths == {"p", "nodir/x"}
Creatable(path) == path = "p"

LowestFree(fdset) ==
  CHOOSE n \in 0..Cardinality(fdset) :
    n \notin fdset /\ \A m \in 0..(n - 1) : m \in fdset

\* open(filename, O_RDONLY): -1 when the file does not exist
OpenRead(fs, fdset, path) ==
  IF fs[path].exists THEN LowestFree(fdset) ELSE -1

\* open(filename, O_WRONLY | O_CREAT | O_TRUNC, 0644)
OpenWrite(fs, fdset, path) ==
  IF Creatable(path)
  THEN [fd |-> LowestFree(fdset),
        files |-> [fs EXCEPT ![path] = [exists |-> TRUE, bytes |-> <<>>]]]
  ELSE [fd |-> -1, files |-> fs]

\* descriptors after open returned fd
Opened(fdset, fd) == IF fd = -1 THEN fdset ELSE fdset \union {fd}

\* close(fd); close(-1) fails with EBADF and closes nothing
Close(fdset, fd) == fdset \ {fd}

\* What the library's serializer reports on a stream over fd.  On a healthy
\* stream it succeeds; on an invalid descriptor or a full disk the error
\* surfaces either in the call (false) or only at the final flush, whose
\* failure nobody looks at (true).
SerializeResults(fd, full) ==
  IF fd # -1 /\ ~full THEN {TRUE} ELSE BOOLEAN

\* bytes that reached the file
Flushed(bytes, full) == IF full THEN <<>> ELSE bytes

(* ---------------------------- text encoding --------------------------- *)
\* TextFormat::Print: one line "v: <digit>\n" per value
RECURSIVE TextPrint(_)
TextPrint(m) ==
  IF m = <<>> THEN <<>>
  ELSE <<118, 58, 32, 48 + Head(m), 10>> \o TextPrint(Tail(m))

\* TextFormat::Parse on the file contents that occur here
RECURSIVE TextParseFrom(_, _)
TextParseFrom(bytes, acc) ==
  IF bytes = <<>> THEN [ok |-> TRUE, msg |-> acc]
  ELSE IF Len(bytes) < 5 THEN [ok |-> FALSE, msg |-> acc]
  ELSE IF /\ SubSeq(bytes, 1, 3) = <<118, 58, 32>>
          /\ bytes[4] \in {48, 49}
          /\ bytes[5] = 10
  THEN TextParseFrom(SubSeq(bytes, 6, Len(bytes)), Append(acc, bytes[4] - 48))
  ELSE [ok |-> FALSE, msg |-> acc]

TextParse(bytes) == TextParseFrom(bytes, <<>>)

(* ----------------------------- file helpers --------------------------- *)
\* coded_input->SetTotalBytesLimit(1073741824, 536870912)
TotalBytesLimit == 1073741824
\* coded_stream.SetTotalBytesLimit(1024LL << 20, 512LL << 20)
TotalBytesLimitLite == 1024 * (2 ^ 20)

\* proto->ParseFromCodedStream under the total-bytes limit
ParseFromCodedStream(bytes, limit) ==
  IF Len(bytes) > limit THEN [ok |-> FALSE, msg |-> <<>>] ELSE Decode(bytes)

IoResult(outcome, fd, used, success, out, fs, fdset) ==
  [outcome |-> outcome, fd |-> fd, used |-> used, success |-> success,
   out |-> out, files |-> fs, fds |-> fdset]

\* bool ReadProtoFromTextFile(const char* filename, Message* proto)
ReadProtoFromTextFile(filename, fs, fdset) ==
  LET fd == OpenRead(fs, fdset, filename) IN
  IF fd = -1
  THEN IoResult(LogFatal, fd, FALSE, FALSE, <<>>, fs, fdset)
  ELSE LET r == TextParse(fs[filename].bytes) IN
       IoResult("ok", fd, TRUE, r.ok, r.msg, fs,
                Close(Opened(fdset, fd), fd))

\* void WriteProtoToTextFile(const Message& proto, const char* filename)
WriteProtoToTextFile(proto, filename, fs, fdset, full) ==
  LET o == OpenWrite(fs, fdset, filename) IN
  {IF ok
   THEN IoResult("ok", o.fd, TRUE, FALSE, <<>>,
                 IF o.fd = -1 THEN o.files
                 ELSE [o.files EXCEPT
                         ![filename].bytes = Flushed(TextPrint(proto), full)],
                 Close(Opened(fdset, o.fd), o.fd))
   ELSE IoResult(LogFatal, o.fd, TRUE, FALSE, <<>>, o.files,
                 Opened(fdset, o.fd))
   : ok \in SerializeResults(o.fd, full)}

\* leaves the descriptor open on return
ReadProtoFromBinaryFile_NoClose(filename, fs, fdset) ==
  LET fd == OpenRead(fs, fdset, filename) IN
  IF fd = -1
  THEN IoResult(LogFatal, fd, FALSE, FALSE, <<>>, fs, fdset)
  ELSE LET r == ParseFromCodedStream(fs[filename].bytes, TotalBytesLimit) IN
       IoResult("ok", fd, TRUE, r.ok, r.msg, fs, Opened(fdset, fd))

\* bool ReadProtoFromBinaryFile(const char*, MessageLite*), full build
ReadProtoFromBinaryFile(filename, fs, fdset) ==
  LET fd == OpenRead(fs, fdset, filename) IN
  IF fd = -1
  THEN IoResult(LogFatal, fd, FALSE, FALSE, <<>>, fs, fdset)
  ELSE LET r == ParseFromCodedStream(fs[filename].bytes, TotalBytesLimit) IN
       IoResult("ok", fd, TRUE, r.ok, r.msg, fs,
                Close(Opened(fdset, fd), fd))

\* closes the file without the serialized bytes reaching it
WriteProtoToBinaryFile_NoBytes(proto, filename, fs, fdset, full) ==
  LET o == OpenWrite(fs, fdset, filename) IN
  IF o.fd = -1
  THEN {IoResult(LogFatal, o.fd, FALSE, FALSE, <<>>, o.files, fdset)}
  ELSE {IoResult("ok", o.fd, TRUE, FALSE, <<>>, o.files,
                 Close(Opened(fdset, o.fd), o.fd))}

\* void WriteProtoToBinaryFile(const MessageLite&, const char*), full build
WriteProtoToBinaryFile(proto, filename, fs, fdset, full) ==
  LET o == OpenWrite(fs, fdset, filename) IN
  IF o.fd = -1
  THEN {IoResult(LogFatal, o.fd, FALSE, FALSE, <<>>, o.files, fdset)}
  ELSE {IF ok
        THEN IoResult("ok", o.fd, TRUE, FALSE, <<>>,
                      [o.files EXCEPT
                         ![filename].bytes = Flushed(Encode(proto), full)],
                      Close(Opened(fdset, o.fd), o.fd))
        ELSE IoResult(LogFatal, o.fd, TRUE, FALSE, <<>>, o.files,
                      Opened(fdset, o.fd))
        : ok \in SerializeResults(o.fd, full)}

\* IfstreamInputStream: the ifstream is opened by the constructor and
\* closed by the destructor; Read returns -1 when the stream is bad, which
\* the coded stream sees as the end of the input
IfstreamInputStream(filename, fs, fdset) ==
  LET fd == OpenRead(fs, fdset, filename) IN
  [fd |-> fd,
   bytes |-> IF fd = -1 THEN <<>> ELSE fs[filename].bytes,
   fds |-> Opened(fdset, fd)]

\* bool ReadProtoFromBinaryFile(const char*, MessageLite*), lite build
ReadProtoFromBinaryFile_lite(filename, fs, fdset) ==
  LET in == IfstreamInputStream(filename, fs, fdset)
      r == ParseFromCodedStream(in.bytes, TotalBytesLimitLite)
  IN IoResult("ok", in.fd, TRUE, r.ok, r.msg, fs, Close(in.fds, in.fd))

\* void WriteProtoToBinaryFile(const MessageLite&, const char*), lite build:
\* CAFFE_LOG_FATAL << "Not implemented yet."
WriteProtoToBinaryFile_lite(proto, filename, fs, fdset) ==
  IoResult(LogFatal, -1, FALSE, FALSE, <<>>, fs, fdset)

Ran(op, path, msg, r) ==
  /\ io' = [op |-> op, path |-> path, msg |-> msg, outcome |-> r.outcome,
            fd |-> r.fd, used |-> r.used, success |-> r.success,
            out |-> r.out]
  /\ files' = r.files
  /\ fds' = r.fds
  /\ aborted' = (r.outcome = LogFatal)
  /\ UNCHANGED <<build, def, handle, last, made, diskFull>>

DoReadProtoFromTextFile ==
  /\ ~aborted /\ build = "full"
  /\ \E path \in Paths :
       Ran("ReadProtoFromTextFile", path, <<>>,
           ReadProtoFromTextFile(path, files, fds))

DoWriteProtoToTextFile ==
  /\ ~aborted /\ build = "full"
  /\ \E path \in Paths, m \in Messages :
       \E r \in WriteProtoToTextFile(m, path, files, fds, diskFull) :
         Ran("WriteProtoToTextFile", path, m, r)

DoReadProtoFromBinaryFile ==
  /\ ~aborted /\ build = "full"
  /\ \E path \in Paths :
       Ran("ReadProtoFromBinaryFile", path, <<>>,
           ReadProtoFromBinaryFile(path, files, fds))

DoWriteProtoToBinaryFile ==
  /\ ~aborted /\ build = "full"
  /\ \E path \in Paths, m \in Messages :
       \E r \in WriteProtoToBinaryFile(m, path, files, fds, diskFull) :
         Ran("WriteProtoToBinaryFile", path, m, r)

DoReadProtoFromBinaryFile_lite ==
  /\ ~aborted /\ build = "lite"
  /\ \E path \in Paths :
       Ran("ReadProtoFromBinaryFile", path, <<>>,
           ReadProtoFromBinaryFile_lite(path, files, fds))

DoWriteProtoToBinaryFile_lite ==
  /\ ~aborted /\ build = "lite"
  /\ \E path \in Paths, m \in Messages :
       Ran("WriteProtoToBinaryFile", path, m,
           WriteProtoToBinaryFile_lite(m, path, files, fds))

\* contents "p" may start with: none, an empty file, a truncated binary
\* stream, a binary message, a text message
InitialContents ==
  {[exists |-> FALSE, bytes |-> <<>>]}
    \union {[exists |-> TRUE, bytes |-> b] :
              b \in {<<>>, <<8>>, Encode(<<1>>), TextPrint(<<1>>)}}

InitIO ==
  /\ build \in {"full", "lite"}
  /\ aborted = FALSE
  /\ def = <<>>
  /\ handle = 0
  /\ last = NoLookup
  /\ made = NoMade
  /\ \E c \in InitialContents : files = [NoFiles EXCEPT !["p"] = c]
  /\ diskFull \in BOOLEAN
  /\ fds = StdFds
  /\ io = NoIo

NextIO ==
  \/ DoReadProtoFromTextFile
  \/ DoWriteProtoToTextFile
  \/ DoReadProtoFromBinaryFile
  \/ DoWriteProtoToBinaryFile
  \/ DoReadProtoFromBinaryFile_lite
  \/ DoWriteProtoToBinaryFile_lite

SpecIO == InitIO /\ [][NextIO]_vars

(* ----------------------- file helpers: properties --------------------- *)
FileOps ==
  {"ReadProtoFromTextFile", "WriteProtoToTextFile",
   "ReadProtoFromBinaryFile", "WriteProtoToBinaryFile"}

\* C7: in the full build each of the four file helpers ends in the fatal
\* outcome when open returns -1, before any parse or serialize step is
\* attempted on the invalid handle, and never returns normally.
C7_OpenFailureFatal ==
  (build = "full" /\ io.op \in FileOps /\ io.fd = -1)
    => (io.outcome = "fatal" /\ ~io.used /\ aborted)

\* C8 as stated: on every exit path, failed serialization included, the
\* handle the call opened is closed when the call ends, so the open handles
\* are those there were before.
C8_ClosedOnEveryPath ==
  io.op \in FileOps => fds = StdFds

\* C8 amended: a call that returns normally has closed the handle it
\* opened; a failed open leaves nothing open; no call closes a handle it
\* did not open; only the fatal failed-serialization path of a write ends
\* with the call's own handle still open.
C8_ClosedOnReturn ==
  /\ StdFds \subseteq fds
  /\ ~aborted => fds = StdFds
  /\ io.fd = -1 => fds = StdFds
  /\ fds # StdFds
       => /\ io.outcome = "fatal"
          /\ io.op \in {"WriteProtoToTextFile", "WriteProtoToBinaryFile"}
          /\ io.used
          /\ fds = StdFds \union {io.fd}

\* a read whose parse failed has returned false with its descriptor closed
C8_Witness ==
  /\ io.op \in {"ReadProtoFromBinaryFile", "ReadProtoFromTextFile"}
  /\ io.outcome = "ok"
  /\ ~io.success
  /\ io.fd \notin StdFds /\ io.fd # -1
  /\ fds = StdFds

RoundTrip(variants) ==
  /\ (build \in variants /\ io'.op = "WriteProtoToBinaryFile"
        /\ Creatable(io'.path) /\ ~diskFull)
     => /\ io'.outcome = "ok"
        /\ files'[io'.path].exists
  /\ (build \in variants /\ io.op = "WriteProtoToBinaryFile"
        /\ io.outcome = "ok" /\ ~diskFull
        /\ io'.op = "ReadProtoFromBinaryFile" /\ io'.path = io.path)
     => /\ io'.outcome = "ok"
        /\ io'.success
        /\ io'.out = io.msg

\* C9 as stated: in each build variant, writing a valid message to a
\* writable path and reading it back succeeds and yields the message.
C9_RoundTripEveryBuild == [][RoundTrip({"full", "lite"})]_vars

\* C9 amended: the round trip holds in the full build (the lite build's
\* WriteProtoToBinaryFile is a stub that always ends fatally).
C9_RoundTripFull == [][RoundTrip({"full"})]_vars

\* a message of two fields has been read back
C9_Witness ==
  /\ build = "full"
  /\ ~diskFull
  /\ io.op = "ReadProtoFromBinaryFile"
  /\ io.success
  /\ Len(io.out) >= 2
  /\ files[io.path].bytes = Encode(io.out)

====
